---- MODULE Spec2Model ----
(***************************************************************************)
(* Historical data export (EnOS time series -> wide CSV table).            *)
(*   utils/time_utils.py          split_into_daily_intervals,              *)
(*                                round_to_nearest_interval                *)
(*   pages/export_historical_data.py  transform_json_list,                 *)
(*                                process_historical_data                  *)
(* Four specifications share the module:                                   *)
(*   SpecSplit  applies split_into_daily_intervals to a range,             *)
(*   SpecRound  applies round_to_nearest_interval to a datetime,           *)
(*   SpecPivot  applies transform_json_list to a list of window item lists,*)
(*   Spec       runs process_historical_data with concurrent fetches.      *)
(***************************************************************************)
EXTENDS Integers, Sequences, FiniteSets, TLC

VARIABLES
    sp_pc, sp_start, sp_end, sp_out,        \* split_into_daily_intervals
    rd_pc, rd_dt, rd_interval, rd_out,      \* round_to_nearest_interval
    pv_pc, pv_in, pv_out,                   \* transform_json_list
    \* process_historical_data
    pc,                 \* position of the coroutine
    assets,             \* what search_device_assets returned
    model_list,         \* the selected models
    start_date, end_date,
    export_interval,    \* the argument interval_minutes
    asset_with_mps, asset_and_name,
    loop_i, loop_j,     \* indices of the two loops of lines 423 and 427
    tasks,              \* the window fetches handed to asyncio.gather
    completed,          \* the windows whose fetch has returned, in completion order
    responses, result,  \* locals of lines 442 and 444
    download_files,
    returned,           \* <<>> until the coroutine returns, then <<its return value>>
    requests,           \* the time-series requests issued so far
    local_files,        \* the paths of the local copies written so far
    \* vendor/poseidon/poseidon.py: urlopen
    sg_now,             \* time.time() * 1000, the clock in milliseconds
    sg_calls,           \* the calls of urlopen so far, each with the request it built
    \* main.py: handle_historical_data_export
    ui_cloud,           \* whether st.secrets holds a 'projects' table
    ui_session,         \* st.session_state: <<>> or <<the stored config and models>>
    ui_requests,        \* the remote requests issued so far, each with its credentials
    ui_message,         \* what the last run of the handler showed
    \* config.py: validate_config
    vc_pc, vc_config, vc_cloud, vc_out

sp_vars == <<sp_pc, sp_start, sp_end, sp_out>>
rd_vars == <<rd_pc, rd_dt, rd_interval, rd_out>>
pv_vars == <<pv_pc, pv_in, pv_out>>
input_vars == <<assets, model_list, start_date, end_date, export_interval>>
match_vars == <<asset_with_mps, asset_and_name>>
out_vars == <<returned, requests, local_files>>
ph_vars == <<pc, input_vars, match_vars, loop_i, loop_j, tasks, completed, responses, result,
             download_files, out_vars>>
sg_vars == <<sg_now, sg_calls>>
ui_vars == <<ui_cloud, ui_session, ui_requests, ui_message>>
vc_vars == <<vc_pc, vc_config, vc_cloud, vc_out>>
net_vars == <<sg_vars, ui_vars, vc_vars>>
vars == <<sp_vars, rd_vars, pv_vars, ph_vars, net_vars>>

----------------------------------------------------------------------------
(* Bounds of the model.                                                    *)

\* instants of the split specification are hours 0..MaxT
MaxT == 60
\* calendar days of the datetimes handed to the rounding are 0..MaxDay
MaxDay == 1
\* windows in a list handed to transform_json_list
MaxWindows == 2
\* records in a list handed to transform_json_list, all windows together
MaxSamples == 2
\* assets in the catalogue search_device_assets returns
MaxAssets == 2
\* the export range of process_historical_data ends within MaxExportDays days
MaxExportDays == 2

----------------------------------------------------------------------------
(* utils/time_utils.py: split_into_daily_intervals.  Instants are counted  *)
(* in hours; both bounds carry the same fixed UTC offset, so adding        *)
(* timedelta(days=1) adds exactly OneDay hours.                            *)

\* timedelta(days=1), in hours
OneDay == 24

\* the while loop of lines 42-51, intervals being the list built so far
RECURSIVE SplitLoop(_, _, _)
SplitLoop(current_start, end_time, intervals) ==
    IF current_start < end_time
    THEN LET stepped == current_start + OneDay
             current_end == IF stepped > end_time THEN end_time ELSE stepped
         IN  SplitLoop(current_end, end_time,
                       Append(intervals, <<current_start, current_end>>))
    ELSE intervals

\* mutant: the clamp of lines 47-48 is missing
RECURSIVE SplitLoopNoClamp(_, _, _)
SplitLoopNoClamp(current_start, end_time, intervals) ==
    IF current_start < end_time
    THEN SplitLoopNoClamp(current_start + OneDay, end_time,
                          Append(intervals, <<current_start, current_start + OneDay>>))
    ELSE intervals

split_NoClamp(start_time, end_time) == SplitLoopNoClamp(start_time, end_time, <<>>)

\* mutant: the loop body runs once before the condition is tested
split_DoWhile(start_time, end_time) ==
    LET stepped == start_time + OneDay
        current_end == IF stepped > end_time THEN end_time ELSE stepped
    IN  SplitLoop(current_end, end_time, <<<<start_time, current_end>>>>)

\* mutant: the first window ends at the next midnight instead of 24 hours on
split_CalendarDay(start_time, end_time) ==
    IF start_time < end_time
    THEN LET midnight == ((start_time \div OneDay) + 1) * OneDay
             current_end == IF midnight > end_time THEN end_time ELSE midnight
         IN  SplitLoop(current_end, end_time, <<<<start_time, current_end>>>>)
    ELSE <<>>

split_into_daily_intervals(start_time, end_time) ==
    SplitLoop(start_time, end_time, <<>>)

----------------------------------------------------------------------------
(* utils/time_utils.py: round_to_nearest_interval.  A datetime is a record *)
(* of its calendar day (a day number) and its time-of-day fields.          *)

MinutesPerHour == 60
HoursPerDay == 24

\* the interval choices of the export form
SupportedIntervals == {1, 5, 10, 15, 30, 60}

DateTime(d, h, m, s, us) ==
    [day |-> d, hour |-> h, minute |-> m, second |-> s, microsecond |-> us]

\* datetime + timedelta(minutes=n): carries into the hour and the day
PlusMinutes(dt, n) ==
    LET total == (dt.day * HoursPerDay + dt.hour) * MinutesPerHour + dt.minute + n
    IN  [dt EXCEPT !.day = total \div (HoursPerDay * MinutesPerHour),
                   !.hour = (total \div MinutesPerHour) % HoursPerDay,
                   !.minute = total % MinutesPerHour]

\* mutant: the carry stops at the hour, the calendar day is kept
PlusMinutesSameDay(dt, n) ==
    LET total == dt.hour * MinutesPerHour + dt.minute + n
    IN  [dt EXCEPT !.hour = (total \div MinutesPerHour) % HoursPerDay,
                   !.minute = total % MinutesPerHour]

\* datetime + timedelta(hours=n)
PlusHours(dt, n) == PlusMinutes(dt, n * MinutesPerHour)

\* mutant: the bucket is written into the minute field without any carry
round_NoCarry(dt, interval) ==
    LET floor_minutes == (dt.minute \div interval) * interval
        minutes == IF 2 * (dt.minute % interval) >= interval
                   THEN floor_minutes + interval ELSE floor_minutes
    IN  [dt EXCEPT !.minute = minutes, !.second = 0, !.microsecond = 0]

\* mutant: the half-way case rounds down (> instead of >=)
round_HalfDown(dt, interval) ==
    LET floor_minutes == (dt.minute \div interval) * interval
        minutes == IF 2 * (dt.minute % interval) > interval
                   THEN floor_minutes + interval ELSE floor_minutes
    IN  PlusMinutes([dt EXCEPT !.minute = 0, !.second = 0, !.microsecond = 0], minutes)

\* mutant: timedelta(minutes=...) carries into the hour only
round_SameDay(dt, interval) ==
    LET floor_minutes == (dt.minute \div interval) * interval
        minutes == IF 2 * (dt.minute % interval) >= interval
                   THEN floor_minutes + interval ELSE floor_minutes
    IN  PlusMinutesSameDay([dt EXCEPT !.minute = 0, !.second = 0, !.microsecond = 0],
                           minutes)

\* mutant: the interval is added to the minute as it is, not to the
\* multiple below it
round_NoFloor(dt, interval) ==
    LET minutes == IF 2 * (dt.minute % interval) >= interval
                   THEN dt.minute + interval ELSE (dt.minute \div interval) * interval
        moved == PlusMinutes([dt EXCEPT !.minute = 0, !.second = 0, !.microsecond = 0],
                             minutes)
    IN  IF moved.minute >= MinutesPerHour
        THEN [PlusHours(moved, 1) EXCEPT !.minute = 0]
        ELSE moved

\* lines 7-14; dt.minute % interval >= interval / 2 is a comparison with a
\* float, i.e. 2 * (dt.minute % interval) >= interval
round_to_nearest_interval(dt, interval) ==
    LET floor_minutes == (dt.minute \div interval) * interval
        minutes == IF 2 * (dt.minute % interval) >= interval
                   THEN floor_minutes + interval ELSE floor_minutes
        moved == PlusMinutes([dt EXCEPT !.minute = 0, !.second = 0, !.microsecond = 0],
                             minutes)
    IN  IF moved.minute >= MinutesPerHour
        THEN [PlusHours(moved, 1) EXCEPT !.minute = 0]
        ELSE moved


----------------------------------------------------------------------------
(* pages/export_historical_data.py: transform_json_list.                   *)
(* A record of a window's item list is a dict with a localtime string and  *)
(* the fields other than assetId, timestamp and localtime, in dict order,  *)
(* as <<key, value>> pairs.  A localtime string "%Y-%m-%d %H:%M:%S" is the *)
(* tuple <<day, hour, minute, second>>.  None is Python's None, which is   *)
(* also the NaN of an empty table cell.                                    *)

None == "None"

\* interval_minutes=5, the default of transform_json_list
DefaultIntervalMinutes == 5

\* datetime.strptime(s, "%Y-%m-%d %H:%M:%S")
strptime(s) == DateTime(s[1], s[2], s[3], s[4], 0)

\* dt.strftime("%Y-%m-%d %H:%M:%S"): the microsecond is not printed
strftime(dt) == <<dt.day, dt.hour, dt.minute, dt.second>>

\* line 337: the first key that is none of assetId, timestamp, localtime
point_id_of(nested_json) ==
    IF nested_json.extra = <<>> THEN None ELSE nested_json.extra[1][1]

\* line 338: nested_json.get(point_id) if point_id else None
point_value_of(nested_json) ==
    IF point_id_of(nested_json) = None THEN None ELSE nested_json.extra[1][2]

\* lines 336-350: the entry appended for one record; a record that is no
\* dict appends nothing
TransformedEntries(nested_json, interval_minutes) ==
    IF nested_json.isdict
    THEN <<[pointId |-> point_id_of(nested_json),
            pointValue |-> point_value_of(nested_json),
            localtime |-> strftime(round_to_nearest_interval(
                              strptime(nested_json.localtime), interval_minutes))]>>
    ELSE <<>>

\* line 335: the records of one window, in response order
RECURSIVE TransformWindow(_, _)
TransformWindow(items, interval_minutes) ==
    IF items = <<>> THEN <<>>
    ELSE TransformedEntries(Head(items), interval_minutes)
            \o TransformWindow(Tail(items), interval_minutes)

\* line 334: the windows in list order
RECURSIVE TransformedData(_, _)
TransformedData(nested_json_list, interval_minutes) ==
    IF nested_json_list = <<>> THEN <<>>
    ELSE TransformWindow(Head(nested_json_list), interval_minutes)
            \o TransformedData(Tail(nested_json_list), interval_minutes)

\* the pointValue column of the entries of one (localtime, pointId) group
GroupValues(entries, localtime, pointId) ==
    LET members == SelectSeq(entries,
                       LAMBDA e : e.localtime = localtime /\ e.pointId = pointId)
    IN  [i \in 1..Len(members) |-> members[i].pointValue]

\* mutant: aggfunc='last'
RECURSIVE AggLast(_)
AggLast(values) ==
    IF values = <<>> THEN None
    ELSE IF values[Len(values)] # None THEN values[Len(values)]
    ELSE AggLast(SubSeq(values, 1, Len(values) - 1))

\* mutant: the aggregate of a group is its first value, null or not
AggFirst_Head(values) ==
    IF values = <<>> THEN None ELSE Head(values)

\* aggfunc='first' of a group: its first value that is not null, NaN if all are
RECURSIVE AggFirst(_)
AggFirst(values) ==
    IF values = <<>> THEN None
    ELSE IF Head(values) # None THEN Head(values)
    ELSE AggFirst(Tail(values))

\* position of a localtime string in the ascending order of the index
TimeKey(s) == ((s[1] * HoursPerDay + s[2]) * MinutesPerHour + s[3]) * 60 + s[4]

RECURSIVE SortedTimes(_)
SortedTimes(S) ==
    IF S = {} THEN <<>>
    ELSE LET first == CHOOSE t \in S : \A u \in S : TimeKey(t) <= TimeKey(u)
         IN  <<first>> \o SortedTimes(S \ {first})

\* mutant: every group is kept, whatever its pointId and its aggregate
KeptGroups_All(entries) ==
    {<<entries[i].localtime, entries[i].pointId>> : i \in 1..Len(entries)}

\* the groups pivot_table keeps: groupby drops the entries whose pointId is
\* null, and dropna drops the groups whose aggregate is NaN
KeptGroups(entries) ==
    {g \in {<<entries[i].localtime, entries[i].pointId>> : i \in 1..Len(entries)} :
        /\ g[2] # None
        /\ AggFirst(GroupValues(entries, g[1], g[2])) # None}

\* mutant: one index entry per kept group, so a localtime with two points
\* is listed twice
RECURSIVE IndexPerGroup(_)
IndexPerGroup(groups) ==
    IF groups = {} THEN <<>>
    ELSE LET first == CHOOSE g \in groups :
                          \A h \in groups : TimeKey(g[1]) <= TimeKey(h[1])
         IN  <<first[1]>> \o IndexPerGroup(groups \ {first})

\* mutant: the index is listed latest first
RECURSIVE PivotIndex_Descending(_)
PivotIndex_Descending(groups) ==
    IF groups = {} THEN <<>>
    ELSE LET last == CHOOSE g \in groups :
                         \A h \in groups : TimeKey(g[1]) >= TimeKey(h[1])
         IN  <<last[1]>> \o
             PivotIndex_Descending({g \in groups : g[1] # last[1]})

\* the index of the pivoted frame: the distinct localtimes of the kept
\* groups, ascending
PivotIndex(groups) == SortedTimes({g[1] : g \in groups})

\* line 356: df.pivot_table(index='localtime', columns='pointId',
\* values='pointValue', aggfunc='first').reset_index()
pivot_table(entries) ==
    LET groups == KeptGroups(entries)
        index == PivotIndex(groups)
        columns == {g[2] : g \in groups}
    IN  [columns |-> columns,
         rows |-> [r \in 1..Len(index) |->
                    [localtime |-> index[r],
                     cells |-> [c \in columns |->
                                  IF <<index[r], c>> \in groups
                                  THEN AggFirst(GroupValues(entries, index[r], c))
                                  ELSE None]]]]

\* return None, None
NothingToExport ==
    [isnone |-> TRUE, csv_data |-> <<>>, filename |-> <<>>, output_file |-> <<>>]

\* mutant: the two early returns of lines 331-332 and 352-353 are left out
transform_NoEarlyReturn(asset_name, nested_json_list, asset_id, interval_minutes) ==
    [isnone |-> FALSE,
     csv_data |-> pivot_table(TransformedData(nested_json_list, interval_minutes)),
     filename |-> <<asset_name, "-", asset_id, ".csv">>,
     output_file |-> <<"projectName", "/", asset_name, "-", asset_id, ".csv">>]

\* lines 330-371: the pair (csv_data, filename); csv_data is the printed
\* table, isnone tells the pair (None, None), output_file is the path of the
\* local copy the call has written, <<>> when it has written none
transform_json_list(asset_name, nested_json_list, asset_id, interval_minutes) ==
    LET transformed_data == TransformedData(nested_json_list, interval_minutes)
    IN  IF \/ Len(nested_json_list) = 0
           \/ \A i \in 1..Len(nested_json_list) : Len(nested_json_list[i]) = 0
        THEN NothingToExport
        ELSE IF transformed_data = <<>>
        THEN NothingToExport
        ELSE [isnone |-> FALSE,
              csv_data |-> pivot_table(transformed_data),
              filename |-> <<asset_name, "-", asset_id, ".csv">>,
              output_file |-> <<"projectName", "/", asset_name, "-", asset_id, ".csv">>]

----------------------------------------------------------------------------
(* pages/export_historical_data.py: process_historical_data.  A Python     *)
(* string is a sequence of tokens, ":" and "," being tokens of their own.  *)

\* str.split(sep), on a string given as tokens
RECURSIVE SplitOn(_, _)
SplitOn(str, sep) ==
    IF \A n \in 1..Len(str) : str[n] # sep THEN <<str>>
    ELSE LET at == CHOOSE n \in 1..Len(str) :
                       str[n] = sep /\ \A m \in 1..(n - 1) : str[m] # sep
         IN  <<SubSeq(str, 1, at - 1)>> \o SplitOn(SubSeq(str, at + 1, Len(str)), sep)

\* sep.join(strings)
RECURSIVE Join(_, _)
Join(strings, sep) ==
    IF strings = <<>> THEN <<>>
    ELSE IF Len(strings) = 1 THEN Head(strings)
    ELSE Head(strings) \o <<sep>> \o Join(Tail(strings), sep)

\* mutant: an asset that matches a selected model gets the identifiers of
\* the first selected model
MatchModels_FirstIdentifiers(asset, models) ==
    IF \E n \in 1..Len(models) : models[n].modelId = asset.modelId
    THEN [mps |-> <<asset.assetId, models[1].identifiers>>,
          names |-> <<asset.assetId \o <<":">> \o asset.deviceName>>]
    ELSE [mps |-> <<>>, names |-> <<>>]

\* lines 410-415: what one asset appends, going through the models in order
RECURSIVE MatchModels(_, _)
MatchModels(asset, models) ==
    IF models = <<>> THEN [mps |-> <<>>, names |-> <<>>]
    ELSE LET rest == MatchModels(asset, Tail(models))
         IN  IF Head(models).modelId = asset.modelId
             THEN [mps |-> <<asset.assetId, Head(models).identifiers>> \o rest.mps,
                   names |-> <<asset.assetId \o <<":">> \o asset.deviceName>>
                                \o rest.names]
             ELSE rest

\* lines 404-415: asset_with_mps and asset_and_name
RECURSIVE MatchAssets(_, _)
MatchAssets(catalogue, models) ==
    IF catalogue = <<>> THEN [mps |-> <<>>, names |-> <<>>]
    ELSE LET first == MatchModels(Head(catalogue), models)
             rest == MatchAssets(Tail(catalogue), models)
         IN  [mps |-> first.mps \o rest.mps, names |-> first.names \o rest.names]

\* lines 423-429: from position (outer, inner) of the two loops, where the
\* coroutine stops next: at the gather of a matching item ("fetch"), at the
\* unpacking of an item that does not split in two ("raise"), or after the
\* loops ("end")
RECURSIVE Scan(_, _, _, _)
Scan(mps, names, outer, inner) ==
    IF outer > Len(mps) THEN [stop |-> "end", i |-> outer, j |-> inner]
    ELSE IF inner > Len(names) THEN Scan(mps, names, outer + 2, 1)
    ELSE LET parts == SplitOn(names[inner], ":")
         IN  IF Len(parts) # 2 THEN [stop |-> "raise", i |-> outer, j |-> inner]
             ELSE IF parts[1] = mps[outer]
             THEN [stop |-> "fetch", i |-> outer, j |-> inner]
             ELSE Scan(mps, names, outer, inner + 1)

\* asset_id, asset_name = item.split(":")
AssetIdOf(item) == SplitOn(item, ":")[1]
AssetNameOf(item) == SplitOn(item, ":")[2]

\* the page size of get_historical_data
PageSize == 6000

\* the UTC offset of pytz.timezone('Asia/Singapore'), line 433
UtcOffset == "+08:00"

\* datetime.isoformat() of an instant of the export range, an hour count
\* from the midnight of day 0: date, time of day and UTC offset
isoformat(t) == [date |-> t \div HoursPerDay, time |-> t % HoursPerDay, offset |-> UtcOffset]

\* datetime.fromisoformat(s)
fromisoformat(s) == s.date * HoursPerDay + s.time

\* mutant: the end of each request is the end of the start's calendar day
RequestData_DayEnd(asset_id, identifiers_str, start_time, end_time, interval) ==
    [pointIds |-> identifiers_str, assetIds |-> asset_id,
     startTime |-> isoformat(start_time),
     endTime |-> isoformat((start_time \div HoursPerDay + 1) * HoursPerDay),
     interval |-> interval, pageSize |-> PageSize]

\* lines 304-312: the request body of get_historical_data
RequestData(asset_id, identifiers_str, start_time, end_time, interval) ==
    [pointIds |-> identifiers_str, assetIds |-> asset_id,
     startTime |-> isoformat(start_time), endTime |-> isoformat(end_time),
     interval |-> interval, pageSize |-> PageSize]

\* mutant: every coroutine is given the first window
NewTasks_FirstWindow(asset_id, identifiers, interval_minutes) ==
    LET windows == split_into_daily_intervals(start_date, end_date)
    IN  [k \in 1..Len(windows) |->
           [status |-> "pending",
            request |-> RequestData(asset_id, Join(identifiers, ","),
                                    windows[1][1], windows[1][2],
                                    interval_minutes * 60),
            reply |-> [kind |-> "none", items |-> <<>>]]]

\* lines 437-439: one get_historical_data coroutine per window
NewTasks(asset_id, identifiers, interval_minutes) ==
    LET windows == split_into_daily_intervals(start_date, end_date)
    IN  [k \in 1..Len(windows) |->
           [status |-> "pending",
            request |-> RequestData(asset_id, Join(identifiers, ","),
                                    windows[k][1], windows[k][2],
                                    interval_minutes * 60),
            reply |-> [kind |-> "none", items |-> <<>>]]]

\* what the remote side can answer to a request: the JSON null, a body
\* without data, an empty item list, or one record of the first requested
\* point at the second minute of the window
RemoteReplies(request) ==
    {[kind |-> "null", items |-> <<>>],
     [kind |-> "nodata", items |-> <<>>],
     [kind |-> "data", items |-> <<>>],
     [kind |-> "data",
      items |-> <<[isdict |-> TRUE,
                   localtime |-> <<request.startTime.date, request.startTime.time, 2, 0>>,
                   extra |-> <<<<request.pointIds[1], "v1">>>>]>>]}

\* mutant: the results are listed as the fetches complete
GatherAsCompleted(children, done_order) ==
    [n \in 1..Len(done_order) |-> children[done_order[n]].reply]

\* line 442: asyncio.gather lists the results in the order of its arguments
Gather(children, done_order) ==
    [k \in 1..Len(children) |-> children[k].reply]

\* mutant: the loop over the responses ends at the first response without data
RECURSIVE CollectItems_UntilMissing(_)
CollectItems_UntilMissing(his) ==
    IF his = <<>> THEN <<>>
    ELSE IF Head(his).kind # "null" /\ Head(his).kind # "nodata"
    THEN <<Head(his).items>> \o CollectItems_UntilMissing(Tail(his))
    ELSE <<>>

\* lines 444-448: the item lists of the responses that carry data
RECURSIVE CollectItems(_)
CollectItems(his) ==
    IF his = <<>> THEN <<>>
    ELSE IF Head(his).kind # "null" /\ Head(his).kind # "nodata"
    THEN <<Head(his).items>> \o CollectItems(Tail(his))
    ELSE CollectItems(Tail(his))

----------------------------------------------------------------------------
(* vendor/poseidon/poseidon.py: urlopen and _create_signature.  A digest   *)
(* and an encoding stand for themselves: different inputs give different   *)
(* outputs.                                                                *)

\* str(n) of a natural number: its decimal digits
RECURSIVE Str(_)
Str(n) == IF n < 10 THEN <<n>> ELSE Str(n \div 10) \o <<n % 10>>

\* s.encode('utf-8')
Utf8(s) == <<"utf-8", s>>

\* hmac.new(key, message, hashlib.sha256).digest()
HmacSha256(key, message) == <<"hmac-sha256", key, message>>

\* base64.b64encode(digest).decode('utf-8')
Base64(digest) == <<"base64", digest>>

\* mutant: the signature also covers the number of requests made so far
create_signature_WithCounter(secret_key, timestamp) ==
    Base64(HmacSha256(Utf8(secret_key), Utf8(timestamp \o Str(Cardinality(sg_calls)))))

\* lines 120-141: _create_signature
create_signature(secret_key, timestamp) ==
    Base64(HmacSha256(Utf8(secret_key), Utf8(timestamp)))

\* lines 44-45: json.dumps(data).encode('utf-8') if data else None; <<>> is
\* the data that counts as false (None, the empty dict) and the body None
DataBytes(data) == IF data = <<>> THEN <<>> ELSE Utf8(<<"json", data>>)

\* mutant: the signature is computed once, from the timestamp of instant 0,
\* and sent with the timestamp of the call
SignedRequest_StaleSignature(access_key, secret_key, url, data, clock) ==
    [url |-> url,
     data |-> DataBytes(data),
     headers |-> [ContentType |-> "application/json",
                  Authorization |-> <<"AccessKey ", access_key>>,
                  timestamp |-> Str(clock),
                  signature |-> create_signature(secret_key, Str(0))]]

\* lines 32-48: the request urlopen builds at the instant clock
SignedRequest(access_key, secret_key, url, data, clock) ==
    LET timestamp == Str(clock)
        signature == create_signature(secret_key, timestamp)
    IN  [url |-> url,
         data |-> DataBytes(data),
         headers |-> [ContentType |-> "application/json",
                      Authorization |-> <<"AccessKey ", access_key>>,
                      timestamp |-> timestamp,
                      signature |-> signature]]

----------------------------------------------------------------------------

(* config.py: validate_config.  A config is a record of its five fields    *)
(* and of the flag _DEV_MODE_SKIP_VALIDATION; the empty string <<>> stands *)
(* for every value config.get(field) finds false.                          *)

Config(access_key, secret_key, api_gateway, org_id, project_name, dev_mode) ==
    [ACCESS_KEY |-> access_key, SECRET_KEY |-> secret_key, API_GATEWAY |-> api_gateway,
     ORG_ID |-> org_id, PROJECT_NAME |-> project_name,
     DEV_MODE_SKIP_VALIDATION |-> dev_mode]

\* "-" in key
HasHyphen(key) == \E n \in 1..Len(key) : key[n] = "-"

Rejected(error_message) == [is_valid |-> FALSE, error_message |-> error_message]
Accepted == [is_valid |-> TRUE, error_message |-> None]

\* lines 136-168; cloud tells that st.secrets holds a 'projects' table
validate_config(config, cloud) ==
    IF config.ACCESS_KEY = <<>> THEN Rejected("Missing required configuration: ACCESS_KEY")
    ELSE IF config.SECRET_KEY = <<>>
    THEN Rejected("Missing required configuration: SECRET_KEY")
    ELSE IF config.API_GATEWAY = <<>>
    THEN Rejected("Missing required configuration: API_GATEWAY")
    ELSE IF config.ORG_ID = <<>> THEN Rejected("Missing required configuration: ORG_ID")
    ELSE IF config.PROJECT_NAME = <<>>
    THEN Rejected("Missing required configuration: PROJECT_NAME")
    ELSE IF config.DEV_MODE_SKIP_VALIDATION THEN Accepted
    ELSE IF cloud THEN Accepted
    ELSE IF ~HasHyphen(config.ACCESS_KEY) THEN Rejected("Invalid ACCESS_KEY format (hyphens)")
    ELSE IF ~HasHyphen(config.SECRET_KEY) THEN Rejected("Invalid SECRET_KEY format (hyphens)")
    ELSE IF Len(SplitOn(config.ACCESS_KEY, "-")) < 2
    THEN Rejected("Invalid ACCESS_KEY format (parts)")
    ELSE IF Len(SplitOn(config.SECRET_KEY, "-")) < 2
    THEN Rejected("Invalid SECRET_KEY format (parts)")
    ELSE Accepted

----------------------------------------------------------------------------

(* SpecSplit: a caller hands a range to split_into_daily_intervals.        *)

SplitIdle ==
    /\ sp_pc = "idle" /\ sp_start = 0 /\ sp_end = 0 /\ sp_out = <<>>

RoundIdle ==
    /\ rd_pc = "idle" /\ rd_dt = DateTime(0, 0, 0, 0, 0)
    /\ rd_interval = 5 /\ rd_out = DateTime(0, 0, 0, 0, 0)

PivotIdle ==
    /\ pv_pc = "idle" /\ pv_in = <<>>
    /\ pv_out = NothingToExport

ExportIdle ==
    /\ pc = "idle"
    /\ assets = <<>> /\ model_list = <<>> /\ start_date = 0 /\ end_date = 0
    /\ export_interval = DefaultIntervalMinutes
    /\ asset_with_mps = <<>> /\ asset_and_name = <<>>
    /\ loop_i = 1 /\ loop_j = 1
    /\ tasks = <<>> /\ completed = <<>> /\ responses = <<>> /\ result = <<>>
    /\ download_files = <<>>
    /\ returned = <<>> /\ requests = <<>> /\ local_files = {}

SignIdle == sg_now = 0 /\ sg_calls = {}

UiIdle ==
    /\ ui_cloud = FALSE /\ ui_session = <<>> /\ ui_requests = {} /\ ui_message = "idle"

ValidateIdle ==
    /\ vc_pc = "idle" /\ vc_cloud = FALSE /\ vc_out = Accepted
    /\ vc_config = Config(<<>>, <<>>, <<>>, <<>>, <<>>, FALSE)

NetIdle == SignIdle /\ UiIdle /\ ValidateIdle

InitSplit ==
    /\ sp_pc = "call"
    /\ sp_start \in 0..MaxT
    /\ sp_end \in 0..MaxT
    /\ sp_out = <<>>
    /\ RoundIdle /\ PivotIdle /\ ExportIdle /\ NetIdle

Split ==
    /\ sp_pc = "call"
    /\ sp_out' = split_into_daily_intervals(sp_start, sp_end)
    /\ sp_pc' = "done"
    /\ UNCHANGED <<sp_start, sp_end, rd_vars, pv_vars, ph_vars, net_vars>>

NextSplit == Split

SpecSplit == InitSplit /\ [][NextSplit]_vars

----------------------------------------------------------------------------
(* SpecRound: a caller hands a datetime and an interval to                 *)
(* round_to_nearest_interval.                                              *)

Seconds == {0, 30, 59}
Microseconds == {0, 999999}

InitRound ==
    /\ rd_pc = "call"
    /\ \E d \in 0..MaxDay, h \in 0..(HoursPerDay - 1), m \in 0..(MinutesPerHour - 1),
          s \in Seconds, us \in Microseconds :
            rd_dt = DateTime(d, h, m, s, us)
    /\ rd_interval \in SupportedIntervals
    /\ rd_out = DateTime(0, 0, 0, 0, 0)
    /\ SplitIdle /\ PivotIdle /\ ExportIdle /\ NetIdle

Round ==
    /\ rd_pc = "call"
    /\ rd_out' = round_to_nearest_interval(rd_dt, rd_interval)
    /\ rd_pc' = "done"
    /\ UNCHANGED <<rd_dt, rd_interval, sp_vars, pv_vars, ph_vars, net_vars>>

NextRound == Round

SpecRound == InitRound /\ [][NextRound]_vars

----------------------------------------------------------------------------
(* SpecPivot: a caller builds a list of window item lists, as lines        *)
(* 444-448 do from the responses, and hands it to transform_json_list.     *)

\* localtime strings of the records: at interval 5 the first rounds down to
\* 10:00, the other two round to 10:05
SampleTimes == {<<0, 10, 2, 0>>, <<0, 10, 3, 0>>, <<0, 10, 6, 0>>}
SamplePoints == {"p1", "p2"}
SampleValues == {"v1", "v2", None}

\* what a window's item list can hold: a record with one measurement field,
\* a record with none, and an item that is no dict
SampleItems ==
    {[isdict |-> TRUE, localtime |-> t, extra |-> <<<<p, v>>>>] :
        t \in SampleTimes, p \in SamplePoints, v \in SampleValues}
    \cup {[isdict |-> TRUE, localtime |-> t, extra |-> <<>>] : t \in SampleTimes}
    \cup {[isdict |-> FALSE, localtime |-> None, extra |-> <<>>]}

RECURSIVE TotalItems(_)
TotalItems(nested_json_list) ==
    IF nested_json_list = <<>> THEN 0
    ELSE Len(Head(nested_json_list)) + TotalItems(Tail(nested_json_list))

InitPivot ==
    /\ pv_pc = "build"
    /\ pv_in = <<>>
    /\ pv_out = NothingToExport
    /\ SplitIdle /\ RoundIdle /\ ExportIdle /\ NetIdle

\* result.append(...): one more window's item list
PivotAddWindow ==
    /\ pv_pc = "build"
    /\ Len(pv_in) < MaxWindows
    /\ pv_in' = Append(pv_in, <<>>)
    /\ UNCHANGED <<pv_pc, pv_out, sp_vars, rd_vars, ph_vars, net_vars>>

\* one more record in the last window's item list
PivotAddItem ==
    /\ pv_pc = "build"
    /\ Len(pv_in) > 0
    /\ TotalItems(pv_in) < MaxSamples
    /\ \E item \in SampleItems :
          pv_in' = [pv_in EXCEPT ![Len(pv_in)] = Append(@, item)]
    /\ UNCHANGED <<pv_pc, pv_out, sp_vars, rd_vars, ph_vars, net_vars>>

Transform ==
    /\ pv_pc = "build"
    /\ pv_out' = transform_json_list("dev", pv_in, "a1", DefaultIntervalMinutes)
    /\ pv_pc' = "done"
    /\ UNCHANGED <<pv_in, sp_vars, rd_vars, ph_vars, net_vars>>

NextPivot == PivotAddWindow \/ PivotAddItem \/ Transform

SpecPivot == InitPivot /\ [][NextPivot]_vars

----------------------------------------------------------------------------
(* Spec: one call of process_historical_data.  The coroutine runs from one *)
(* await to the next without interruption; while it waits in the gather    *)
(* the window fetches run in executor threads and end in any order.        *)

Asset(id, name, model) == [assetId |-> id, deviceName |-> name, modelId |-> model]

\* the assets a catalogue is drawn from; one device name holds a ":"
KnownAssets ==
    {Asset(<<"a1">>, <<"pump">>, "m1"),
     Asset(<<"a2">>, <<"fan", ":", "2">>, "m1"),
     Asset(<<"a3">>, <<"pump">>, "m2")}

\* the models the selection is drawn from
KnownModels ==
    {[modelId |-> "m1", identifiers |-> <<<<"p1">>, <<"p2">>>>],
     [modelId |-> "m2", identifiers |-> <<<<"p2">>>>]}

\* the sequences of at most n different elements of S
DistinctSeqs(S, n) ==
    {q \in UNION {[1..k -> S] : k \in 0..n} :
        \A a, b \in 1..Len(q) : a # b => q[a] # q[b]}

\* the ends of the export range: the start itself, then six hours into
\* each of the following days
ExportEnds(start) == {start} \cup {start + d * OneDay + 6 : d \in 0..(MaxExportDays - 1)}

\* the intervals an export is run with: the default and one other choice
\* of the form
ExportIntervals == {DefaultIntervalMinutes, 1}

Init ==
    /\ pc = "start"
    /\ assets \in DistinctSeqs(KnownAssets, MaxAssets)
    /\ model_list \in DistinctSeqs(KnownModels, Cardinality(KnownModels))
    /\ start_date = 0
    /\ export_interval \in ExportIntervals
    /\ end_date \in ExportEnds(start_date)
    /\ asset_with_mps = <<>> /\ asset_and_name = <<>>
    /\ loop_i = 1 /\ loop_j = 1
    /\ tasks = <<>> /\ completed = <<>> /\ responses = <<>> /\ result = <<>>
    /\ download_files = <<>>
    /\ returned = <<>> /\ requests = <<>> /\ local_files = {}
    /\ SplitIdle /\ RoundIdle /\ PivotIdle /\ NetIdle

others == <<sp_vars, rd_vars, pv_vars, net_vars>>

\* line 393: search_device_assets raises (the request failed)
SearchAssetsRaises ==
    /\ pc = "start"
    /\ pc' = "raised"
    /\ UNCHANGED <<input_vars, match_vars, loop_i, loop_j, tasks, completed, responses, result,
                   download_files, out_vars, others>>

\* mutant: the no-match branch returns the empty download list
NoMatchReturn_EmptyList == [isnone |-> FALSE, files |-> <<>>]

\* line 420: the bare return of the no-match branch hands None to the caller
NoMatchReturn == [isnone |-> TRUE, files |-> <<>>]

\* line 536: return download_files
FilesReturn(files) == [isnone |-> FALSE, files |-> files]

\* lines 393-420: the catalogue is matched against the selected models; with
\* nothing matched the coroutine warns and returns
MatchSelected ==
    /\ pc = "start"
    /\ LET matched == MatchAssets(assets, model_list)
       IN  /\ asset_with_mps' = matched.mps
           /\ asset_and_name' = matched.names
           /\ pc' = IF matched.mps = <<>> THEN "no_match" ELSE "loop"
           /\ returned' = IF matched.mps = <<>> THEN <<NoMatchReturn>> ELSE returned
    /\ UNCHANGED <<input_vars, loop_i, loop_j, tasks, completed, responses, result,
                   download_files, requests, local_files, others>>

\* lines 423-442: the loops run on to the next matching item and its
\* fetches are handed to asyncio.gather
IssueFetches ==
    /\ pc = "loop"
    /\ LET next == Scan(asset_with_mps, asset_and_name, loop_i, loop_j)
       IN  /\ next.stop = "fetch"
           /\ loop_i' = next.i /\ loop_j' = next.j
           /\ tasks' = NewTasks(AssetIdOf(asset_and_name[next.j]),
                                asset_with_mps[next.i + 1], export_interval)
    /\ requests' = requests \o [k \in 1..Len(tasks') |-> tasks'[k].request]
    /\ completed' = <<>>
    /\ pc' = "gather"
    /\ UNCHANGED <<input_vars, match_vars, responses, result, download_files,
                   returned, local_files, others>>

\* line 428: an item does not split into two parts, the unpacking raises
UnpackRaises ==
    /\ pc = "loop"
    /\ LET next == Scan(asset_with_mps, asset_and_name, loop_i, loop_j)
       IN  /\ next.stop = "raise"
           /\ loop_i' = next.i /\ loop_j' = next.j
    /\ pc' = "raised"
    /\ UNCHANGED <<input_vars, match_vars, tasks, completed, responses, result,
                   download_files, out_vars, others>>

\* lines 454-536: the loops are over, the download list is shown and returned
ReturnFiles ==
    /\ pc = "loop"
    /\ LET next == Scan(asset_with_mps, asset_and_name, loop_i, loop_j)
       IN  /\ next.stop = "end"
           /\ loop_i' = next.i /\ loop_j' = next.j
    /\ pc' = "returned"
    /\ returned' = <<FilesReturn(download_files)>>
    /\ UNCHANGED <<input_vars, match_vars, tasks, completed, responses, result,
                   download_files, requests, local_files, others>>

\* poseidon.urlopen returns in its executor thread
FetchReturns(k) ==
    /\ pc \in {"gather", "raised"}
    /\ k \in 1..Len(tasks)
    /\ tasks[k].status = "pending"
    /\ \E reply \in RemoteReplies(tasks[k].request) :
          tasks' = [tasks EXCEPT ![k].status = "returned", ![k].reply = reply]
    /\ completed' = Append(completed, k)
    /\ UNCHANGED <<pc, input_vars, match_vars, loop_i, loop_j, responses, result,
                   download_files, out_vars, others>>

\* mutant: the gather keeps the exception as the result of its window and
\* the coroutine goes on waiting
FetchRaises_ExceptionKept(k) ==
    /\ pc \in {"gather", "raised"}
    /\ k \in 1..Len(tasks)
    /\ tasks[k].status = "pending"
    /\ tasks' = [tasks EXCEPT ![k].status = "raised"]
    /\ UNCHANGED <<pc, input_vars, match_vars, loop_i, loop_j, completed, responses, result,
                   download_files, out_vars, others>>

\* poseidon.urlopen raises in its executor thread; _safe_a_urlopen raises
\* again and the gather hands the first exception to the coroutine
FetchRaises(k) ==
    /\ pc \in {"gather", "raised"}
    /\ k \in 1..Len(tasks)
    /\ tasks[k].status = "pending"
    /\ tasks' = [tasks EXCEPT ![k].status = "raised"]
    /\ pc' = "raised"
    /\ UNCHANGED <<input_vars, match_vars, loop_i, loop_j, completed, responses, result,
                   download_files, out_vars, others>>

\* mutant: the coroutine goes on as soon as one fetch has returned
Collect_OnFirstReturn ==
    /\ pc = "gather"
    /\ \E k \in 1..Len(tasks) : tasks[k].status = "returned"
    /\ \A k \in 1..Len(tasks) : tasks[k].status # "raised"
    /\ responses' = Gather(tasks, completed)
    /\ result' = CollectItems(Gather(tasks, completed))
    /\ loop_j' = loop_j + 1
    /\ pc' = "loop"
    /\ UNCHANGED <<input_vars, match_vars, loop_i, tasks, completed, download_files,
                   out_vars, others>>

\* lines 442-452: every fetch has returned; the responses are filtered,
\* pivoted and the table joins the download list
Collect ==
    /\ pc = "gather"
    /\ \A k \in 1..Len(tasks) : tasks[k].status = "returned"
    /\ LET gathered == Gather(tasks, completed)
           collected == CollectItems(gathered)
           item == asset_and_name[loop_j]
           out == transform_json_list(AssetNameOf(item), collected, AssetIdOf(item),
                                      export_interval)
       IN  /\ responses' = gathered
           /\ result' = collected
           /\ download_files' =
                 IF out.isnone THEN download_files
                 ELSE Append(download_files,
                             <<out.csv_data, out.filename, AssetNameOf(item)>>)
           /\ local_files' =
                 IF out.output_file = <<>> THEN local_files
                 ELSE local_files \cup {out.output_file}
    /\ loop_j' = loop_j + 1
    /\ pc' = "loop"
    /\ UNCHANGED <<input_vars, match_vars, loop_i, tasks, completed, returned, requests,
                   others>>

Next ==
    \/ SearchAssetsRaises
    \/ MatchSelected
    \/ IssueFetches
    \/ UnpackRaises
    \/ ReturnFiles
    \/ \E k \in 1..Len(tasks) : FetchReturns(k)
    \/ \E k \in 1..Len(tasks) : FetchRaises(k)
    \/ Collect

Spec == Init /\ [][Next]_vars

----------------------------------------------------------------------------
(* SpecHang: the call of process_historical_data with a remote side that   *)
(* may leave a request without an answer.                                  *)

\* poseidon.py line 51: urllib.request.urlopen(req) is given no timeout, so
\* the executor thread of a request the remote side never answers stays in
\* the call; neither a_urlopen nor the gather of line 442 bounds the wait
RemoteNeverAnswers(k) ==
    /\ pc \in {"gather", "raised"}
    /\ k \in 1..Len(tasks)
    /\ tasks[k].status = "pending"
    /\ tasks' = [tasks EXCEPT ![k].status = "silent"]
    /\ UNCHANGED <<pc, input_vars, match_vars, loop_i, loop_j, completed, responses, result,
                   download_files, out_vars, others>>

NextHang ==
    \/ Next
    \/ \E k \in 1..Len(tasks) : RemoteNeverAnswers(k)

SpecHang == Init /\ [][NextHang]_vars

----------------------------------------------------------------------------

(* SpecSign: callers hand credentials, a URL and a body to urlopen while   *)
(* the clock runs.                                                         *)

MaxClock == 2
MaxRequests == 2

AccessKeys == {"ak-1", "ak-2"}
SecretKeys == {"sk-1", "sk-2"}
Urls == {"/models", "/tsdb"}
Bodies == {<<>>, <<"body">>}

InitSign ==
    /\ sg_now = 0
    /\ sg_calls = {}
    /\ SplitIdle /\ RoundIdle /\ PivotIdle /\ ExportIdle /\ UiIdle /\ ValidateIdle

\* a millisecond passes
Tick ==
    /\ sg_now < MaxClock
    /\ sg_now' = sg_now + 1
    /\ UNCHANGED <<sg_calls, sp_vars, rd_vars, pv_vars, ph_vars, ui_vars, vc_vars>>

\* poseidon.urlopen(access_key, secret_key, url, data) builds and sends its
\* request
UrlOpen ==
    /\ Cardinality(sg_calls) < MaxRequests
    /\ \E access_key \in AccessKeys, secret_key \in SecretKeys, url \in Urls,
          data \in Bodies :
            sg_calls' = sg_calls \cup
                {[access_key |-> access_key, secret_key |-> secret_key,
                  request |-> SignedRequest(access_key, secret_key, url, data, sg_now)]}
    /\ UNCHANGED <<sg_now, sp_vars, rd_vars, pv_vars, ph_vars, ui_vars, vc_vars>>

NextSign == Tick \/ UrlOpen

SpecSign == InitSign /\ [][NextSign]_vars

----------------------------------------------------------------------------

(* SpecUI: the runs of handle_historical_data_export in one browser        *)
(* session.  Each run of the script has the config of the project or of    *)
(* the custom fields chosen at that time and at most one clicked button.   *)

\* the configs a run can have: a project of DEFAULT_CONFIGS, and custom
\* fields that are complete, lack the organization, or hold an access key
\* without hyphen
UiConfigs ==
    {Config(<<"ak", "-", "1">>, <<"sk", "-", "1">>, <<"gw">>, <<"o1">>, <<"P">>, FALSE),
     Config(<<"ak", "-", "2">>, <<"sk", "-", "2">>, <<"gw">>, <<"o2">>, <<"C">>, FALSE),
     Config(<<"ak", "-", "2">>, <<"sk", "-", "2">>, <<"gw">>, <<>>, <<"C">>, FALSE),
     Config(<<"ak2">>, <<"sk", "-", "2">>, <<"gw">>, <<"o2">>, <<"C">>, FALSE)}

\* how the model search of 'Fetch Models' can end
SearchOutcomes == {"raises", "empty", "found"}

\* how far process_historical_data gets under 'Run Export'
ExportOutcomes == {"search_raises", "no_fetch", "fetched", "fetch_raises"}

RemoteRequest(kind, config) == [kind |-> kind, config |-> config]

InitUI ==
    /\ ui_cloud \in BOOLEAN
    /\ ui_session = <<>>
    /\ ui_requests = {}
    /\ ui_message = "start"
    /\ SplitIdle /\ RoundIdle /\ PivotIdle /\ ExportIdle /\ SignIdle /\ ValidateIdle

\* lines 62-90: 'Fetch Models' is clicked in a run whose config is config
ClickFetchModels(config, outcome) ==
    /\ IF ~validate_config(config, ui_cloud).is_valid
       THEN /\ ui_message' = "config_error"
            /\ UNCHANGED <<ui_session, ui_requests>>
       ELSE /\ ui_requests' = ui_requests \cup {RemoteRequest("models", config)}
            /\ ui_session' = IF outcome = "found"
                             THEN <<[config |-> config, models |-> "models"]>>
                             ELSE ui_session
            /\ ui_message' = CASE outcome = "found" -> "found_models"
                               [] outcome = "empty" -> "no_models"
                               [] OTHER -> "fetch_error"
    /\ UNCHANGED <<ui_cloud, sp_vars, rd_vars, pv_vars, ph_vars, sg_vars, vc_vars>>

\* mutant: the exporter is configured with the config of the current run
ExportConfig_OfCurrentRun(config) == config

\* line 141: exporter.configure(st.session_state.config)
ExportConfig(config) == ui_session[1].config

\* lines 92-154: 'Run Export' is clicked in a run whose config is config;
\* the button exists only while the session holds models and a config
ClickRunExport(config, selected, outcome) ==
    /\ ui_session # <<>>
    /\ IF ~selected
       THEN /\ ui_message' = "select_error"
            /\ UNCHANGED ui_requests
       ELSE /\ ui_requests' = ui_requests
                 \cup {RemoteRequest("assets", ExportConfig(config))}
                 \cup (IF outcome \in {"fetched", "fetch_raises"}
                       THEN {RemoteRequest("timeseries", ExportConfig(config))}
                       ELSE {})
            /\ ui_message' = IF outcome \in {"search_raises", "fetch_raises"}
                             THEN "export_error" ELSE "completed"
    /\ UNCHANGED <<ui_cloud, ui_session, sp_vars, rd_vars, pv_vars, ph_vars, sg_vars, vc_vars>>

NextUI ==
    \/ \E config \in UiConfigs, outcome \in SearchOutcomes :
          ClickFetchModels(config, outcome)
    \/ \E config \in UiConfigs, selected \in BOOLEAN, outcome \in ExportOutcomes :
          ClickRunExport(config, selected, outcome)

SpecUI == InitUI /\ [][NextUI]_vars

----------------------------------------------------------------------------

(* SpecValidate: a caller hands a config to validate_config, in a          *)
(* deployment with or without a 'projects' table in st.secrets.            *)

\* the values of a key field: empty, without hyphen, with hyphen
KeyValues == {<<>>, <<"key">>, <<"key", "-", "1">>}

\* the values of another field: empty or not
FieldValues == {<<>>, <<"value">>}

InitValidate ==
    /\ vc_pc = "call"
    /\ vc_config \in {Config(ak, sk, gw, org, name, dev) :
                         ak \in KeyValues, sk \in KeyValues, gw \in FieldValues,
                         org \in FieldValues, name \in FieldValues, dev \in BOOLEAN}
    /\ vc_cloud \in BOOLEAN
    /\ vc_out = Accepted
    /\ SplitIdle /\ RoundIdle /\ PivotIdle /\ ExportIdle /\ SignIdle /\ UiIdle

Validate ==
    /\ vc_pc = "call"
    /\ vc_out' = validate_config(vc_config, vc_cloud)
    /\ vc_pc' = "done"
    /\ UNCHANGED <<vc_config, vc_cloud, sp_vars, rd_vars, pv_vars, ph_vars, sg_vars, ui_vars>>

NextValidate == Validate

SpecValidate == InitValidate /\ [][NextValidate]_vars

----------------------------------------------------------------------------

(* Properties of split_into_daily_intervals, under SpecSplit.              *)

WindowStart(w) == w[1]
WindowEnd(w) == w[2]

\* C1: for start < end the returned windows exactly partition [start, end):
\* the first starts at start, the last ends at end, each window ends where
\* the next starts, and each has a positive length of at most 24 hours.
C1_SplitPartitionsRange ==
    (sp_pc = "done" /\ sp_start < sp_end) =>
        /\ Len(sp_out) >= 1
        /\ WindowStart(sp_out[1]) = sp_start
        /\ WindowEnd(sp_out[Len(sp_out)]) = sp_end
        /\ \A i \in 1..(Len(sp_out) - 1) :
              WindowEnd(sp_out[i]) = WindowStart(sp_out[i + 1])
        /\ \A i \in 1..Len(sp_out) :
              /\ WindowStart(sp_out[i]) < WindowEnd(sp_out[i])
              /\ WindowEnd(sp_out[i]) - WindowStart(sp_out[i]) <= OneDay

\* a range of several windows whose last window is cut short by end
C1_Witness ==
    /\ sp_pc = "done" /\ sp_start < sp_end
    /\ Len(sp_out) >= 2
    /\ WindowEnd(sp_out[Len(sp_out)]) - WindowStart(sp_out[Len(sp_out)]) < OneDay

\* C9: the result is the empty sequence whenever start >= end.
C9_EmptyWhenStartNotBeforeEnd ==
    (sp_pc = "done" /\ sp_start >= sp_end) => sp_out = <<>>

\* the split has run on a range whose end lies before its start
C9_Witness == sp_pc = "done" /\ sp_start > sp_end /\ sp_out = <<>>

\* number of 24-hour steps needed to cover a range of the given length
StepsToCover(length) == (length + OneDay - 1) \div OneDay

Min(a, b) == IF a <= b THEN a ELSE b

\* C10: window k is [start + k*24h, min(start + (k+1)*24h, end)), k counted
\* from 0: all windows but the last are 24 hours long, only the last is
\* clamped, and a non-empty range shorter than 24 hours is one window equal
\* to the range.
C10_FixedDaySteps ==
    (sp_pc = "done" /\ sp_start < sp_end) =>
        /\ Len(sp_out) = StepsToCover(sp_end - sp_start)
        /\ \A k \in 0..(Len(sp_out) - 1) :
              sp_out[k + 1] = <<sp_start + k * OneDay,
                                Min(sp_start + (k + 1) * OneDay, sp_end)>>
        /\ \A k \in 1..(Len(sp_out) - 1) :
              WindowEnd(sp_out[k]) - WindowStart(sp_out[k]) = OneDay
        /\ (sp_end - sp_start < OneDay) => sp_out = <<<<sp_start, sp_end>>>>

\* three windows from a start that is not a midnight, the last one clamped
C10_Witness ==
    /\ sp_pc = "done" /\ Len(sp_out) = 3
    /\ sp_start % OneDay # 0
    /\ WindowEnd(sp_out[3]) = sp_end
    /\ sp_end < sp_start + 3 * OneDay

----------------------------------------------------------------------------
(* Properties of round_to_nearest_interval, under SpecRound.               *)

\* minutes since day 0, 00:00
MinuteOfEpoch(dt) == (dt.day * HoursPerDay + dt.hour) * MinutesPerHour + dt.minute

\* the multiple of interval nearest to minute, the half-way case going up
NearestMultiple(minute, interval) ==
    interval * ((2 * minute + interval) \div (2 * interval))

\* the bucket the rounding advances to is the 60th minute
BucketReachesSixty(dt, interval) == NearestMultiple(dt.minute, interval) = 60

\* C6: the result is, counted from the start of dt's hour, the multiple of
\* interval nearest to dt.minute with the half-way case rounded up, seconds
\* and microseconds zero; 10:02 at 5 gives 10:00 and 10:03 at 5 gives 10:05.
C6_RoundsHalfUpToNearestMultiple ==
    rd_pc = "done" =>
        /\ MinuteOfEpoch(rd_out) =
              MinuteOfEpoch([rd_dt EXCEPT !.minute = 0])
                 + NearestMultiple(rd_dt.minute, rd_interval)
        /\ rd_out.second = 0 /\ rd_out.microsecond = 0
        /\ (rd_dt.hour = 10 /\ rd_dt.minute = 2 /\ rd_interval = 5) =>
              rd_out = DateTime(rd_dt.day, 10, 0, 0, 0)
        /\ (rd_dt.hour = 10 /\ rd_dt.minute = 3 /\ rd_interval = 5) =>
              rd_out = DateTime(rd_dt.day, 10, 5, 0, 0)

\* an exact half-way minute with non-zero seconds has been rounded up
C6_Witness ==
    /\ rd_pc = "done" /\ rd_interval = 10 /\ rd_dt.minute = 5
    /\ rd_dt.second # 0 /\ rd_dt.microsecond # 0
    /\ rd_out.minute = 10 /\ rd_out.second = 0

\* C7 as claimed: a roll-over in hour 23 keeps the calendar day of the input.
C7_RolloverKeepsDay ==
    (rd_pc = "done" /\ rd_dt.hour = 23 /\ BucketReachesSixty(rd_dt, rd_interval)) =>
        rd_out.day = rd_dt.day

\* C7 as amended: a roll-over in hour 23 advances the calendar day, the
\* result is 00:00:00 of the day after the input's.
C7_RolloverAdvancesDay ==
    (rd_pc = "done" /\ rd_dt.hour = 23 /\ BucketReachesSixty(rd_dt, rd_interval)) =>
        rd_out = DateTime(rd_dt.day + 1, 0, 0, 0, 0)

\* 23:58 has been rounded at interval 5
C7_Witness ==
    /\ rd_pc = "done" /\ rd_dt.hour = 23 /\ rd_dt.minute = 58 /\ rd_interval = 5
    /\ BucketReachesSixty(rd_dt, rd_interval)

\* C8: when the advanced bucket reaches 60 the result is the next hour with
\* minute 0 and second 0; the minute of a result is never 60 or more.
C8_RolloverToNextHour ==
    rd_pc = "done" =>
        /\ rd_out.minute \in 0..59
        /\ BucketReachesSixty(rd_dt, rd_interval) =>
              /\ rd_out.minute = 0 /\ rd_out.second = 0
              /\ rd_out.day * HoursPerDay + rd_out.hour =
                    rd_dt.day * HoursPerDay + rd_dt.hour + 1

\* hh:30 has been rounded at interval 60, and hh:58 at interval 5
C8_Witness ==
    /\ rd_pc = "done" /\ rd_dt.hour = 10
    /\ \/ rd_dt.minute = 30 /\ rd_interval = 60
       \/ rd_dt.minute = 58 /\ rd_interval = 5
    /\ rd_out.hour = 11 /\ rd_out.minute = 0

\* C30: for every supported interval the rounding lands on the grid and is
\* idempotent: the minute of the result is a multiple of the interval, and
\* rounding the result again returns it unchanged.
C30_RoundIdempotentOnGrid ==
    rd_pc = "done" =>
        /\ rd_out.minute \in 0..(MinutesPerHour - 1)
        /\ rd_out.minute % rd_interval = 0
        /\ round_to_nearest_interval(rd_out, rd_interval) = rd_out

\* a time off the grid of a 15-minute interval has been moved up to it, and
\* a second rounding leaves it there
C30_Witness ==
    /\ rd_pc = "done" /\ rd_interval = 15 /\ rd_dt.minute = 38
    /\ rd_out # rd_dt /\ rd_out.minute = 45
    /\ round_to_nearest_interval(rd_out, rd_interval) = rd_out

----------------------------------------------------------------------------
(* Properties of transform_json_list, under SpecPivot.  A sample is named  *)
(* by its position <<window, index in the window's item list>>.            *)

SamplePositions ==
    {pos \in (1..MaxWindows + 1) \X (1..MaxSamples + 1) :
        /\ pos[1] <= Len(pv_in)
        /\ pos[2] <= Len(pv_in[pos[1]])
        /\ pv_in[pos[1]][pos[2]].isdict}

SampleAt(pos) == pv_in[pos[1]][pos[2]]

\* encounter order: window order, then the order inside the window
EncounteredBefore(p, q) == p[1] < q[1] \/ (p[1] = q[1] /\ p[2] < q[2])

RoundedLocaltime(pos) ==
    strftime(round_to_nearest_interval(strptime(SampleAt(pos).localtime),
                                       DefaultIntervalMinutes))

\* the samples that carry a measurement field
MeasuredPositions == {pos \in SamplePositions : SampleAt(pos).extra # <<>>}

PointOf(pos) == SampleAt(pos).extra[1][1]
ValueOf(pos) == SampleAt(pos).extra[1][2]

SameCell(p, q) ==
    RoundedLocaltime(p) = RoundedLocaltime(q) /\ PointOf(p) = PointOf(q)

TableProduced == pv_pc = "done" /\ ~pv_out.isnone

\* the value the table shows for a localtime and a point, None for an empty
\* or absent cell
CellValue(table, localtime, point) ==
    IF \E r \in 1..Len(table.rows) :
          table.rows[r].localtime = localtime /\ point \in table.columns
    THEN LET r == CHOOSE r \in 1..Len(table.rows) :
                      table.rows[r].localtime = localtime
         IN  table.rows[r].cells[point]
    ELSE None

RowTimes(table) == {table.rows[r].localtime : r \in 1..Len(table.rows)}

\* C4 as claimed: when several samples share a rounded localtime and a point
\* identifier, the cell holds the value of the sample encountered first.
C4_FirstEncounteredWins ==
    TableProduced =>
        \A p \in MeasuredPositions :
            (/\ \E q \in MeasuredPositions : q # p /\ SameCell(p, q)
             /\ \A q \in MeasuredPositions : SameCell(p, q) => ~EncounteredBefore(q, p))
            => CellValue(pv_out.csv_data, RoundedLocaltime(p), PointOf(p)) = ValueOf(p)

\* C4 as amended: the cell holds the value of the first sample, in encounter
\* order, whose value is not null; no later sample replaces it.
C4_FirstNonNullEncounteredWins ==
    TableProduced =>
        \A p \in MeasuredPositions :
            (/\ ValueOf(p) # None
             /\ \A q \in MeasuredPositions :
                   (SameCell(p, q) /\ ValueOf(q) # None) => ~EncounteredBefore(q, p))
            => CellValue(pv_out.csv_data, RoundedLocaltime(p), PointOf(p)) = ValueOf(p)

\* two windows each hold a sample of the same cell, with different values,
\* and the table shows the first window's
C4_Witness ==
    /\ TableProduced
    /\ \E p, q \in MeasuredPositions :
          /\ p[1] < q[1] /\ SameCell(p, q)
          /\ ValueOf(p) # None /\ ValueOf(q) # None /\ ValueOf(p) # ValueOf(q)
          /\ CellValue(pv_out.csv_data, RoundedLocaltime(p), PointOf(p)) = ValueOf(p)

\* C5 as claimed, for a table that has rows: the table has exactly one row
\* for each distinct rounded localtime among the input samples, and no
\* other row.
C5_RowPerRoundedLocaltime ==
    (TableProduced /\ pv_out.csv_data.rows # <<>>) =>
        /\ RowTimes(pv_out.csv_data) = {RoundedLocaltime(p) : p \in SamplePositions}
        /\ Cardinality(RowTimes(pv_out.csv_data)) = Len(pv_out.csv_data.rows)

\* C5 as amended: the table has exactly one row for each distinct rounded
\* localtime among the samples that carry a measurement field with a value
\* that is not null, and no other row.
C5_RowPerRoundedLocaltimeOfValues ==
    TableProduced =>
        /\ RowTimes(pv_out.csv_data) =
              {RoundedLocaltime(p) : p \in {q \in MeasuredPositions : ValueOf(q) # None}}
        /\ Cardinality(RowTimes(pv_out.csv_data)) = Len(pv_out.csv_data.rows)

\* two samples of different points and different localtimes round to the
\* same localtime and share the one row of the table
C5_Witness ==
    /\ TableProduced
    /\ \E p, q \in MeasuredPositions :
          /\ SampleAt(p).localtime # SampleAt(q).localtime
          /\ RoundedLocaltime(p) = RoundedLocaltime(q)
          /\ PointOf(p) # PointOf(q)
          /\ ValueOf(p) # None /\ ValueOf(q) # None
    /\ Len(pv_out.csv_data.rows) = 1

\* C29: a sample whose value is null does not occupy its cell: when the
\* samples of a cell that come first in encounter order are null, the cell
\* holds the value of the first sample after them that is not null.
C29_NullDoesNotOccupyCell ==
    TableProduced =>
        \A p, q \in MeasuredPositions :
            (/\ SameCell(p, q) /\ EncounteredBefore(p, q)
             /\ ValueOf(p) = None /\ ValueOf(q) # None
             /\ \A r \in MeasuredPositions :
                   (SameCell(r, q) /\ EncounteredBefore(r, q)) => ValueOf(r) = None)
            => /\ \E n \in 1..Len(pv_out.csv_data.rows) :
                     pv_out.csv_data.rows[n].localtime = RoundedLocaltime(q)
               /\ CellValue(pv_out.csv_data, RoundedLocaltime(q), PointOf(q)) = ValueOf(q)

\* the first sample of a cell is null, a later sample of the cell has a
\* value, and the table shows that value
C29_Witness ==
    /\ TableProduced
    /\ \E p, q \in MeasuredPositions :
          /\ SameCell(p, q) /\ EncounteredBefore(p, q)
          /\ ValueOf(p) = None /\ ValueOf(q) # None
          /\ CellValue(pv_out.csv_data, RoundedLocaltime(q), PointOf(q)) = ValueOf(q)

----------------------------------------------------------------------------
(* Properties of process_historical_data, under Spec.                      *)

\* C2: when one of the window fetches of an asset fails, the fetch step
\* does not raise, so that the results of the other windows are collected
\* and pivoted; stated for a failure beside a window that returned data.
C2_FailedFetchDoesNotAbort ==
    (\E k, other \in 1..Len(tasks) :
        /\ tasks[k].status = "raised"
        /\ tasks[other].status = "returned" /\ tasks[other].reply.items # <<>>)
    => pc # "raised"

\* the windows whose response carries data
WindowsWithData ==
    {k \in 1..Len(tasks) : tasks[k].status = "returned" /\ tasks[k].reply.kind = "data"}

\* the n-th window with data, in ascending window order
NthWindowWithData(n) ==
    CHOOSE k \in WindowsWithData :
        Cardinality({w \in WindowsWithData : w < k}) = n - 1

\* the gather of the current asset is over and its result has been pivoted
AssetCollected == pc \in {"loop", "returned"} /\ Len(tasks) = Len(completed)

\* C3: the responses of an asset's windows reach the pivot step in window
\* order, one per window, whatever the order in which the fetches ended.
C3_ResponsesInWindowOrder ==
    AssetCollected =>
        /\ Len(responses) = Len(tasks)
        /\ \A k \in 1..Len(tasks) : responses[k] = tasks[k].reply
        /\ \A k \in 1..(Len(tasks) - 1) :
              tasks[k].request.endTime = tasks[k + 1].request.startTime
        /\ Len(result) = Cardinality(WindowsWithData)
        /\ \A n \in 1..Len(result) : result[n] = tasks[NthWindowWithData(n)].reply.items

\* the fetch of the second window ended before the fetch of the first, both
\* with a record, and the pivot step got the first window's records first
C3_Witness ==
    /\ AssetCollected
    /\ Len(completed) >= 2 /\ completed[1] = 2 /\ completed[2] = 1
    /\ tasks[1].reply.items # <<>> /\ tasks[2].reply.items # <<>>
    /\ result = <<tasks[1].reply.items, tasks[2].reply.items>>
    /\ download_files # <<>>

\* the matching step of lines 404-420 is over: the coroutine has left the
\* start, and not by the raise of search_device_assets, which alone leaves
\* "raised" with nothing matched
Matched == pc \notin {"idle", "start"} /\ ~(pc = "raised" /\ asset_with_mps = <<>>)

\* the positions of the catalogue whose asset has the modelId of a selected model
MatchedPositions ==
    {a \in 1..Len(assets) :
        \E m \in 1..Len(model_list) : model_list[m].modelId = assets[a].modelId}

\* the n-th matched position, in catalogue order
NthMatched(n) ==
    CHOOSE a \in MatchedPositions :
        Cardinality({b \in MatchedPositions : b < a}) = n - 1

\* the selected model an asset matches
SelectedModelOf(asset) ==
    model_list[CHOOSE m \in 1..Len(model_list) : model_list[m].modelId = asset.modelId]

\* C11: the matching step emits exactly one entry (assetId, deviceName,
\* pointIdentifiers) for every asset whose modelId is that of a selected
\* model, carrying that model's identifier list, and no entry for an asset
\* that matches no selected model.
C11_OneEntryPerMatchedAsset ==
    Matched =>
        /\ Len(asset_and_name) = Cardinality(MatchedPositions)
        /\ Len(asset_with_mps) = 2 * Cardinality(MatchedPositions)
        /\ \A n \in 1..Len(asset_and_name) :
              LET asset == assets[NthMatched(n)]
              IN  /\ asset_with_mps[2 * n - 1] = asset.assetId
                  /\ asset_with_mps[2 * n] = SelectedModelOf(asset).identifiers
                  /\ asset_and_name[n] = asset.assetId \o <<":">> \o asset.deviceName

\* a catalogue of two assets has been matched against one selected model:
\* the first asset matches no selected model, the second matches
C11_Witness ==
    /\ Matched
    /\ Len(assets) = 2 /\ Len(model_list) = 1
    /\ MatchedPositions = {2}
    /\ Len(asset_and_name) = 1
    /\ asset_with_mps[2] = model_list[1].identifiers

\* C12: when no asset has the modelId of a selected model (an empty
\* catalogue and an empty selection included) the call does not raise and
\* returns a 'no matching assets' result that differs from the result of a
\* run that matched assets but found no data, the empty download list.
C12_NoMatchIsDistinguishable ==
    /\ (Matched /\ MatchedPositions = {}) =>
          /\ pc = "no_match"
          /\ Len(returned) = 1
          /\ returned[1].isnone
          /\ returned[1] # FilesReturn(<<>>)
          /\ requests = <<>> /\ download_files = <<>>
    /\ pc = "returned" =>
          /\ MatchedPositions # {}
          /\ returned = <<FilesReturn(download_files)>>
          /\ ~returned[1].isnone

\* a catalogue with assets and a selection with models that share no
\* modelId have been matched
C12_Witness ==
    /\ pc = "no_match"
    /\ assets # <<>> /\ model_list # <<>>
    /\ MatchedPositions = {}
    /\ returned = <<NoMatchReturn>>

\* every window fetch of the current asset has returned and none of them
\* carries a sample
NoWindowHasSamples ==
    /\ pc = "gather"
    /\ \A k \in 1..Len(tasks) :
          tasks[k].status = "returned" /\ tasks[k].reply.items = <<>>

\* C13: if no window produced any sample (the list of window results is
\* empty, or every window's item list is empty) transform_json_list returns
\* (None, None) without raising and without writing a file, and the asset
\* adds no entry to the download list.
C13_NoSamplesNoFile ==
    [][NoWindowHasSamples =>
         /\ pc' = "loop"
         /\ \A n \in 1..Len(result') : result'[n] = <<>>
         /\ transform_json_list(AssetNameOf(asset_and_name[loop_j]), result',
                                AssetIdOf(asset_and_name[loop_j]),
                                export_interval) = NothingToExport
         /\ NothingToExport.isnone /\ NothingToExport.output_file = <<>>
         /\ local_files' = local_files
         /\ download_files' = download_files]_vars

\* an asset of two windows has been collected: one window answered with an
\* empty item list, the other with no data at all, and nothing was listed
C13_Witness ==
    /\ AssetCollected
    /\ Len(tasks) = 2
    /\ tasks[1].reply.kind = "data" /\ tasks[1].reply.items = <<>>
    /\ tasks[2].reply.kind = "nodata"
    /\ result = <<<<>>>>
    /\ download_files = <<>> /\ local_files = {}

----------------------------------------------------------------------------
(* Further properties of transform_json_list, under SpecPivot.             *)

\* a record whose only keys are among assetId, timestamp and localtime
LacksMeasurement(item) == item.isdict /\ item.extra = <<>>

RECURSIVE WithoutUnmeasuredItems(_)
WithoutUnmeasuredItems(items) ==
    IF items = <<>> THEN <<>>
    ELSE IF LacksMeasurement(Head(items)) THEN WithoutUnmeasuredItems(Tail(items))
    ELSE <<Head(items)>> \o WithoutUnmeasuredItems(Tail(items))

\* the input without the records that lack the measurement field
WithoutUnmeasured(nested_json_list) ==
    [i \in 1..Len(nested_json_list) |-> WithoutUnmeasuredItems(nested_json_list[i])]

\* C14: a record that lacks the dynamic measurement field is skipped: it
\* contributes no row, no column and no value to the table, and it does not
\* abort the transformation of the other records; stated for an input that
\* holds such a record beside a record with a value.
C14_UnmeasuredRecordSkipped ==
    (/\ pv_pc = "done"
     /\ \E p \in SamplePositions : LacksMeasurement(SampleAt(p))
     /\ \E q \in MeasuredPositions : ValueOf(q) # None) =>
        /\ ~pv_out.isnone
        /\ None \notin pv_out.csv_data.columns
        /\ pv_out.csv_data.columns \subseteq SamplePoints
        /\ pv_out.csv_data =
              pivot_table(TransformedData(WithoutUnmeasured(pv_in), DefaultIntervalMinutes))
        /\ RowTimes(pv_out.csv_data) =
              {RoundedLocaltime(p) : p \in {q \in MeasuredPositions : ValueOf(q) # None}}

\* a record without measurement field came first, at a localtime of its
\* own, and the record after it fills the only row of the table
C14_Witness ==
    /\ TableProduced
    /\ \E p, q \in SamplePositions :
          /\ EncounteredBefore(p, q)
          /\ LacksMeasurement(SampleAt(p))
          /\ q \in MeasuredPositions /\ ValueOf(q) # None
          /\ RoundedLocaltime(p) # RoundedLocaltime(q)
    /\ Len(pv_out.csv_data.rows) = 1

\* C18: the rows of the table are in strictly ascending order of rounded
\* localtime, whatever the order of the input windows and records.
C18_RowsAscending ==
    TableProduced =>
        \A r \in 1..(Len(pv_out.csv_data.rows) - 1) :
            TimeKey(pv_out.csv_data.rows[r].localtime)
               < TimeKey(pv_out.csv_data.rows[r + 1].localtime)

\* the record of the later localtime came in an earlier window than the
\* record of the earlier localtime, and the table lists the earlier first
C18_Witness ==
    /\ TableProduced
    /\ Len(pv_out.csv_data.rows) = 2
    /\ \E p, q \in MeasuredPositions :
          /\ p[1] < q[1]
          /\ ValueOf(p) # None /\ ValueOf(q) # None
          /\ TimeKey(RoundedLocaltime(p)) > TimeKey(RoundedLocaltime(q))
          /\ pv_out.csv_data.rows[1].localtime = RoundedLocaltime(q)
          /\ pv_out.csv_data.rows[2].localtime = RoundedLocaltime(p)

----------------------------------------------------------------------------
(* Properties of the request signature, under SpecSign.                    *)

\* C15: the signature is a function of the secret and the timestamp only:
\* two requests signed with the same secret and the same timestamp carry
\* the same signature whatever their URL, body and access key, and whatever
\* was sent before them.
C15_SignatureOfSecretAndTimestamp ==
    \A c, d \in sg_calls :
        (/\ c.secret_key = d.secret_key
         /\ c.request.headers.timestamp = d.request.headers.timestamp)
        => c.request.headers.signature = d.request.headers.signature

\* two requests of the same secret and the same millisecond that differ in
\* URL, body and access key have been sent
C15_Witness ==
    \E c, d \in sg_calls :
        /\ c.secret_key = d.secret_key
        /\ c.request.headers.timestamp = d.request.headers.timestamp
        /\ c.request.url # d.request.url
        /\ c.request.data # d.request.data
        /\ c.access_key # d.access_key
        /\ c.request.headers.signature = d.request.headers.signature
        /\ c.request.headers.timestamp = Str(1)

----------------------------------------------------------------------------
(* Properties of the window fetches, under SpecHang and Spec.              *)

\* C16: every outstanding window fetch honours a timeout, so the wait for
\* an asset's window fetches always finishes: while the coroutine waits in
\* the gather some step is still to come, a fetch that ends or the
\* collection of the results.
C16_GatherNeverWaitsForever ==
    pc = "gather" => ENABLED NextHang

----------------------------------------------------------------------------
(* Properties of handle_historical_data_export, under SpecUI.              *)

\* C17: no remote request (model search, asset search, time-series fetch)
\* is ever issued with a configuration that validate_config rejected: the
\* session only ever holds a configuration that passed the validation and
\* with which models were fetched, and an export only ever uses such a
\* configuration.
C17_NoRequestWithRejectedConfig ==
    /\ \A r \in ui_requests : validate_config(r.config, ui_cloud).is_valid
    /\ ui_session # <<>> =>
          /\ validate_config(ui_session[1].config, ui_cloud).is_valid
          /\ RemoteRequest("models", ui_session[1].config) \in ui_requests
    /\ \A r \in ui_requests :
          r.kind \in {"assets", "timeseries"} =>
              RemoteRequest("models", r.config) \in ui_requests

\* under the strict validation an export has run to its end and has fetched
\* time series with the complete custom config, the config under which
\* the models were fetched; no request carries another config
C17_Witness ==
    /\ ~ui_cloud
    /\ ui_message = "completed"
    /\ \E r \in ui_requests : r.kind = "timeseries" /\ r.config.PROJECT_NAME = <<"C">>
    /\ \A r \in ui_requests : r.config.PROJECT_NAME = <<"C">>

\* C19: when one window fetch of an asset fails the failure reaches the
\* caller of process_historical_data, and the sibling fetches still in
\* flight are aborted: none of them runs on to completion after the first
\* failure.
C19_SiblingsAbortedOnFailure ==
    /\ []((\E k \in 1..Len(tasks) : tasks[k].status = "raised") => pc = "raised")
    /\ [][(\E j \in 1..Len(tasks) : tasks[j].status = "raised") =>
            \A k \in 1..Len(tasks) :
                tasks[k].status = "pending" => tasks'[k].status # "returned"]_vars

\* the windows of the export range
ExportWindows == split_into_daily_intervals(start_date, end_date)

\* the requests issued so far for an asset and a window
RequestsFor(asset_id, window) ==
    {n \in 1..Len(requests) :
        /\ requests[n].assetIds = asset_id
        /\ fromisoformat(requests[n].startTime) = window[1]
        /\ fromisoformat(requests[n].endTime) = window[2]}

\* C20: exactly one time-series request is issued for each pair of a
\* matched asset and a window: at no time has a pair been requested twice
\* or has an asset that matched no selected model been requested, and when
\* the call returns the download list each pair has been requested once.
C20_OneRequestPerAssetAndWindow ==
    /\ \A n \in 1..Len(requests) :
          /\ \E a \in MatchedPositions : assets[a].assetId = requests[n].assetIds
          /\ \E w \in 1..Len(ExportWindows) :
                /\ fromisoformat(requests[n].startTime) = ExportWindows[w][1]
                /\ fromisoformat(requests[n].endTime) = ExportWindows[w][2]
          /\ Cardinality(RequestsFor(requests[n].assetIds,
                                     <<fromisoformat(requests[n].startTime),
                                       fromisoformat(requests[n].endTime)>>)) = 1
    /\ pc = "returned" =>
          /\ Len(requests) = Cardinality(MatchedPositions) * Len(ExportWindows)
          /\ \A a \in MatchedPositions : \A w \in 1..Len(ExportWindows) :
                Cardinality(RequestsFor(assets[a].assetId, ExportWindows[w])) = 1

\* the call has returned for a catalogue of a matched and an unmatched
\* asset and a range of two windows: two requests, both for the matched one
C20_Witness ==
    /\ pc = "returned"
    /\ Len(assets) = 2 /\ Cardinality(MatchedPositions) = 1
    /\ Len(ExportWindows) = 2
    /\ Len(requests) = 2
    /\ requests[1].assetIds = requests[2].assetIds
    /\ requests[1].endTime = requests[2].startTime

\* C21: assets are processed one after the other: all window fetches that
\* are outstanding belong to one asset, and the fetches of the next asset
\* are issued only when every window fetch of the current asset has
\* returned and its results have been collected and pivoted.
C21_AssetsSequential ==
    /\ [](\A k, l \in 1..Len(tasks) :
            tasks[k].request.assetIds = tasks[l].request.assetIds)
    /\ [][requests' # requests =>
            /\ pc = "loop"
            /\ \A k \in 1..Len(tasks) : tasks[k].status = "returned"
            /\ Len(responses) = Len(tasks)
            /\ \A k \in 1..Len(tasks) : responses[k] = tasks[k].reply
            /\ \A n \in 1..Len(requests) :
                  requests[n].assetIds # requests'[Len(requests')].assetIds]_vars

\* the fetches of the second matched asset are outstanding in two windows
\* while the table of the first is in the download list
C21_Witness ==
    /\ pc = "gather"
    /\ Len(tasks) = 2
    /\ tasks[1].status = "pending" /\ tasks[2].status = "pending"
    /\ Len(requests) = 4
    /\ requests[1].assetIds # tasks[1].request.assetIds
    /\ Len(download_files) = 1

\* the request the n-th issued request has to be: requests are issued asset
\* by asset in matching order, and window by window for each asset
ExpectedRequest(n) ==
    LET asset == assets[NthMatched(((n - 1) \div Len(ExportWindows)) + 1)]
        window == ExportWindows[((n - 1) % Len(ExportWindows)) + 1]
    IN  [pointIds |-> Join(SelectedModelOf(asset).identifiers, ","),
         assetIds |-> asset.assetId,
         startTime |-> [date |-> window[1] \div HoursPerDay,
                        time |-> window[1] % HoursPerDay, offset |-> "+08:00"],
         endTime |-> [date |-> window[2] \div HoursPerDay,
                      time |-> window[2] % HoursPerDay, offset |-> "+08:00"],
         interval |-> export_interval * 60,
         pageSize |-> 6000]

\* C22: the request built for a window carries pointIds equal to the
\* identifiers of the asset's model joined by commas in model order,
\* assetIds equal to the asset id, startTime and endTime equal to the
\* window's start and end in ISO-8601, interval equal to
\* interval_minutes * 60 and pageSize 6000.
C22_RequestFields ==
    /\ \A n \in 1..Len(requests) : requests[n] = ExpectedRequest(n)
    /\ \A k \in 1..Len(tasks) : tasks[k].request = requests[Len(requests) - Len(tasks) + k]
    /\ \A n \in 1..Len(requests) :
          SelectedModelOf(assets[NthMatched(((n - 1) \div Len(ExportWindows)) + 1)]).modelId = "m1"
             => requests[n].pointIds = <<"p1", ",", "p2">>

\* at interval 1 the requests of a two-window range have been issued for an
\* asset of the model with two identifiers; the second window ends at the
\* end of the range, 06:00 of the next day
C22_Witness ==
    /\ export_interval = 1
    /\ Len(requests) >= 2
    /\ Len(ExportWindows) = 2
    /\ requests[2].pointIds = <<"p1", ",", "p2">>
    /\ requests[2].interval = 60
    /\ requests[2].startTime = [date |-> 1, time |-> 0, offset |-> "+08:00"]
    /\ requests[2].endTime = [date |-> 1, time |-> 6, offset |-> "+08:00"]

----------------------------------------------------------------------------
\* C26: the call is all-or-nothing across assets: when a window fetch
\* raises while the k-th matched asset is processed the call raises and
\* returns nothing, so the tables built for the assets before it do not
\* reach the caller, and no fetch is issued for the assets after it.
C26_AllOrNothing ==
    /\ []((\E k \in 1..Len(tasks) : tasks[k].status = "raised") =>
            pc = "raised" /\ returned = <<>>)
    /\ [][pc = "raised" =>
            /\ pc' = "raised"
            /\ returned' = <<>>
            /\ requests' = requests
            /\ download_files' = download_files]_vars

\* a fetch of the first of two matched assets has raised: no request has
\* been issued for the second
C26_Witness ==
    /\ pc = "raised"
    /\ \E k \in 1..Len(tasks) : tasks[k].status = "raised"
    /\ Cardinality(MatchedPositions) = 2
    /\ Len(requests) = Len(ExportWindows)
    /\ returned = <<>>

\* C27: for every matched asset the (assetId, deviceName) pair recovered
\* by splitting its "assetId:deviceName" item equals the pair of the
\* catalogue, whatever the device name, one that holds a ":" included,
\* and the unpacking of line 428 never raises.
C27_PairRecovered ==
    /\ \A n \in 1..Len(asset_and_name) :
          LET parts == SplitOn(asset_and_name[n], ":")
              asset == assets[NthMatched(n)]
          IN  parts = <<asset.assetId, asset.deviceName>>
    /\ pc = "raised" /\ asset_with_mps # <<>> =>
          \E k \in 1..Len(tasks) : tasks[k].status = "raised"

\* a response that is None, or whose "data" is absent or None
IsMissing(his_data) == his_data.kind \in {"null", "nodata"}

\* the gather of an asset with a missing response has just been collected
CollectedWithMissing ==
    /\ pc = "loop" /\ tasks # <<>> /\ Len(tasks) = Len(completed)
    /\ \E k \in 1..Len(responses) : IsMissing(responses[k])

\* C28: a window whose response is None or has no data is skipped without
\* an error and contributes no samples; the item lists of the other
\* windows are passed to transform_json_list in their window order.
C28_MissingWindowsSkipped ==
    [][pc = "gather" /\ pc' = "loop" /\ CollectedWithMissing' =>
          LET kept == SelectSeq(responses', LAMBDA h : ~IsMissing(h))
              item == asset_and_name[loop_j]
              out == transform_json_list(AssetNameOf(item), result', AssetIdOf(item),
                                         export_interval)
          IN  /\ \A k \in 1..Len(tasks) : responses'[k] = tasks[k].reply
              /\ result' = [n \in 1..Len(kept) |-> kept[n].items]
              /\ download_files' =
                    IF out.isnone THEN download_files
                    ELSE Append(download_files,
                                <<out.csv_data, out.filename, AssetNameOf(item)>>)]_vars

\* the first window of an asset was answered with None and the second with
\* a record: the table of the asset is made of the second window alone
C28_Witness ==
    /\ CollectedWithMissing
    /\ Len(tasks) = 2
    /\ tasks[1].reply.kind = "null" /\ tasks[2].reply.items # <<>>
    /\ result = <<tasks[2].reply.items>>
    /\ download_files # <<>>

(* Further properties of split_into_daily_intervals, under SpecSplit.      *)

\* the boundaries between consecutive windows
InnerBoundaries == {WindowEnd(sp_out[i]) : i \in 1..(Len(sp_out) - 1)}

\* C23 as claimed: every window boundary other than start and end falls on
\* a calendar-day boundary, a midnight.
C23_BoundariesAtMidnight ==
    sp_pc = "done" => \A b \in InnerBoundaries : b % OneDay = 0

\* C23 as amended: every window boundary other than start and end lies a
\* whole number of 24-hour steps after start, so at the time of day of
\* start; the boundaries are midnights exactly when start is a midnight.
C23_BoundariesAtTimeOfStart ==
    sp_pc = "done" =>
        /\ \A b \in InnerBoundaries :
              /\ b % OneDay = sp_start % OneDay
              /\ \E k \in 1..Len(sp_out) : b = sp_start + k * OneDay
        /\ InnerBoundaries # {} =>
              ((\A b \in InnerBoundaries : b % OneDay = 0) <=> sp_start % OneDay = 0)

\* a range from 07:00 over more than two days: two boundaries, both at 07:00
C23_Witness ==
    /\ sp_pc = "done"
    /\ sp_start = 7
    /\ Len(sp_out) = 3
    /\ InnerBoundaries = {31, 55}

----------------------------------------------------------------------------
(* Further properties of urlopen, under SpecSign.                          *)

\* C24: every request sent carries a timestamp header T and a signature
\* header S where S is base64(HMAC-SHA256(secret, T)) for the caller's
\* secret and exactly the T that is sent, with Authorization
\* 'AccessKey <access key>' and Content-Type application/json; each call
\* takes its timestamp from the clock at the time of the call.
C24_SignedHeaders ==
    /\ [](\A c \in sg_calls :
            /\ c.request.headers.signature =
                  <<"base64", <<"hmac-sha256", <<"utf-8", c.secret_key>>,
                                <<"utf-8", c.request.headers.timestamp>>>>>>
            /\ c.request.headers.Authorization = <<"AccessKey ", c.access_key>>
            /\ c.request.headers.ContentType = "application/json"
            /\ DOMAIN c.request.headers =
                  {"ContentType", "Authorization", "timestamp", "signature"})
    /\ [][\A c \in sg_calls' \ sg_calls : c.request.headers.timestamp = Str(sg_now)]_vars

\* two calls with the same credentials, URL and body have been made at
\* different instants and carry different timestamps and signatures
C24_Witness ==
    \E c, d \in sg_calls :
        /\ c.secret_key = d.secret_key /\ c.access_key = d.access_key
        /\ c.request.url = d.request.url /\ c.request.data = d.request.data
        /\ c.request.headers.timestamp = Str(0)
        /\ d.request.headers.timestamp = Str(2)
        /\ c.request.headers.signature # d.request.headers.signature

----------------------------------------------------------------------------
(* Properties of validate_config, under SpecValidate.                      *)

\* the five fields are present and not empty
AllFieldsGiven(config) ==
    /\ config.ACCESS_KEY # <<>> /\ config.SECRET_KEY # <<>>
    /\ config.API_GATEWAY # <<>> /\ config.ORG_ID # <<>> /\ config.PROJECT_NAME # <<>>

\* C25: validate_config returns (True, None) only if the five fields are
\* present and non-empty and ACCESS_KEY and SECRET_KEY both contain a
\* hyphen; in every other case it returns (False, message).
C25_AcceptsOnlyWellFormedKeys ==
    vc_pc = "done" =>
        IF /\ AllFieldsGiven(vc_config)
           /\ \E n \in 1..Len(vc_config.ACCESS_KEY) : vc_config.ACCESS_KEY[n] = "-"
           /\ \E n \in 1..Len(vc_config.SECRET_KEY) : vc_config.SECRET_KEY[n] = "-"
        THEN vc_out.is_valid /\ vc_out.error_message = None
        ELSE ~vc_out.is_valid /\ vc_out.error_message # None

====
